---- MODULE Spec2Model ----
(***************************************************************************)
(* A model of alan (src/alan.rs), an interpreter for a small Turing-machine *)
(* description language.  Texts are sequences of characters, a character   *)
(* is a one-element string ("U+00E9" stands for the two-byte character     *)
(* e-acute), a Symbol is its name, a Case is a record of five fields.      *)
(***************************************************************************)
EXTENDS Integers, Sequences, FiniteSets, TLC

(* ------------------------------ bounds --------------------------------- *)
\* longest rule table drawn by Init
MaxRules == 2
\* the length of the initial tapes drawn by Init
TapeLen == 2
\* largest number of snapshots a run prints before the model stops following it
MaxSteps == 3
\* longest program token sequence drawn by InitStart
MaxProgTokens == 5
\* longest tape token sequence drawn by InitStart
MaxTapeTokens == 2
\* longest token sequence drawn by InitParse
MaxTokens == 10
\* longest text drawn by InitLex
MaxText == 5

(* ---------------------------- characters ------------------------------- *)
SP == " "
NL == "\n"
TAB == "\t"
EAcute == "U+00E9"

\* the bytes a character takes in a Rust String (UTF-8)
Utf8Len(c) == IF c = EAcute THEN 2 ELSE 1

RECURSIVE ByteLen(_)
\* String::len(): the length of a text in bytes
ByteLen(s) == IF s = <<>> THEN 0 ELSE Utf8Len(Head(s)) + ByteLen(Tail(s))

\* the length of a text in characters (printed columns)
CharLen(s) == Len(s)

(* ------------------------------ symbols -------------------------------- *)
\* the hardcoded start state, Symbol{name: "Inc"}
Inc == <<"I", "n", "c">>
\* a one-character, two-byte symbol
Acc == <<EAcute>>
ArrowRight == <<"-", ">">>
ArrowLeft == <<"<", "-">>

\* the symbols rule tables and tapes are drawn from
Sym == {Inc, Acc}
Steps == {"Left", "Right"}
Cases == [state : Sym, read : Sym, write : Sym, step : Steps, next : Sym]

RECURSIVE SeqsUpTo(_, _)
\* all sequences over S of length at most n
SeqsUpTo(S, n) ==
  IF n = 0 THEN {<<>>}
  ELSE LET shorter == SeqsUpTo(S, n - 1)
       IN shorter \cup {Append(s, x) : s \in {t \in shorter : Len(t) = n - 1}, x \in S}

(* ----------------------------- tokenizer ------------------------------- *)
\* a split that takes the tab for a delimiter too
IsDelim_whitespace(c) == c = SP \/ c = NL \/ c = TAB

\* the delimiters of split(&[' ', '\n'])
IsDelim(c) == c = SP \/ c = NL

RECURSIVE split(_, _)
\* str::split: the fragments between delimiters, empty ones included;
\* cur is the fragment being read
split(text, cur) ==
  IF text = <<>> THEN <<cur>>
  ELSE IF IsDelim(Head(text)) THEN <<cur>> \o split(Tail(text), <<>>)
  ELSE split(Tail(text), Append(cur, Head(text)))

\* a filter that keeps the empty fragments
filter_keep_empty(frags) == frags

\* .filter(|t| t.len() > 0)
filter_nonempty(frags) == SelectSeq(frags, LAMBDA t : ByteLen(t) > 0)

\* source.split(&[' ', '\n']).filter(|t| t.len() > 0)
Tokenize(text) == filter_nonempty(split(text, <<>>))

(* ------------------------------- parser -------------------------------- *)
NoToken == <<>>
Fail(kind, got, rest) == [ok |-> FALSE, val |-> <<>>, err |-> [kind |-> kind, got |-> got], rest |-> rest]
Done(val, rest) == [ok |-> TRUE, val |-> <<val>>, err |-> [kind |-> "none", got |-> NoToken], rest |-> rest]

\* parse_symbol: one token, or UnexpectedEnd
parse_symbol(lexer) ==
  IF lexer # <<>> THEN Done(Head(lexer), Tail(lexer))
  ELSE Fail("UnexpectedEnd", NoToken, lexer)

\* a parse_step with the two arrows exchanged
parse_step_swapped(lexer) ==
  LET symbol == parse_symbol(lexer) IN
  IF ~symbol.ok THEN symbol
  ELSE IF symbol.val[1] = ArrowRight THEN Done("Left", symbol.rest)
  ELSE IF symbol.val[1] = ArrowLeft THEN Done("Right", symbol.rest)
  ELSE Fail("InvalidStep", symbol.val[1], symbol.rest)

\* parse_step: one token that must be "->" or "<-"
parse_step(lexer) ==
  LET symbol == parse_symbol(lexer) IN
  IF ~symbol.ok THEN symbol
  ELSE IF symbol.val[1] = ArrowRight THEN Done("Right", symbol.rest)
  ELSE IF symbol.val[1] = ArrowLeft THEN Done("Left", symbol.rest)
  ELSE Fail("InvalidStep", symbol.val[1], symbol.rest)

\* a parse_case that takes all five tokens before it looks at the step
parse_case_collect(lexer) ==
  LET state == parse_symbol(lexer) IN
  IF ~state.ok THEN state ELSE
  LET read == parse_symbol(state.rest) IN
  IF ~read.ok THEN read ELSE
  LET write == parse_symbol(read.rest) IN
  IF ~write.ok THEN write ELSE
  LET arrow == parse_symbol(write.rest) IN
  IF ~arrow.ok THEN arrow ELSE
  LET nxt == parse_symbol(arrow.rest) IN
  IF ~nxt.ok THEN nxt ELSE
  LET step == parse_step(write.rest) IN
  IF ~step.ok THEN Fail("InvalidStep", arrow.val[1], nxt.rest) ELSE
  Done([state |-> state.val[1], read |-> read.val[1], write |-> write.val[1],
        step |-> step.val[1], next |-> nxt.val[1]], nxt.rest)

\* parse_case: state, read, write, step, next; the first failure is returned
parse_case(lexer) ==
  LET state == parse_symbol(lexer) IN
  IF ~state.ok THEN state ELSE
  LET read == parse_symbol(state.rest) IN
  IF ~read.ok THEN read ELSE
  LET write == parse_symbol(read.rest) IN
  IF ~write.ok THEN write ELSE
  LET step == parse_step(write.rest) IN
  IF ~step.ok THEN step ELSE
  LET nxt == parse_symbol(step.rest) IN
  IF ~nxt.ok THEN nxt ELSE
  Done([state |-> state.val[1], read |-> read.val[1], write |-> write.val[1],
        step |-> step.val[1], next |-> nxt.val[1]], nxt.rest)

RECURSIVE parse_cases_loop(_, _)
parse_cases_loop(lexer, cases) ==
  IF lexer = <<>> THEN Done(cases, lexer)
  ELSE LET c == parse_case(lexer) IN
       IF ~c.ok THEN c ELSE parse_cases_loop(c.rest, Append(cases, c.val[1]))

\* parse_cases: cases until the token stream is exhausted
parse_cases(lexer) == parse_cases_loop(lexer, <<>>)

RECURSIVE parse_tape_loop(_, _)
parse_tape_loop(lexer, symbols) ==
  IF lexer = <<>> THEN Done(symbols, lexer)
  ELSE LET s == parse_symbol(lexer) IN
       IF ~s.ok THEN s ELSE parse_tape_loop(s.rest, Append(symbols, s.val[1]))

\* parse_tape: symbols until the token stream is exhausted
parse_tape(lexer) == parse_tape_loop(lexer, <<>>)

(* ------------------------------- machine ------------------------------- *)
\* a machine whose tape_default is the first tape symbol
NewMachine_first_default(t) == [state |-> Inc, tape |-> t, tape_default |-> t[1], head |-> 0, halt |-> FALSE]

\* struct Machine: state, tape, tape_default, head, halt
NewMachine(t) == [state |-> Inc, tape |-> t, tape_default |-> t[Len(t)], head |-> 0, halt |-> FALSE]

\* self.tape[self.head] exists (the index is in bounds)
InBounds(m) == m.head < Len(m.tape)

\* the 0-based cell self.tape[self.head]
Cell(m) == m.tape[m.head + 1]

\* case.state == self.state (the left operand of &&)
state_eq(m, case) == case.state = m.state

\* case.read == self.tape[self.head] (the right operand of &&)
read_eq(m, case) == case.read = Cell(m)

\* self.tape[self.head].name = case.write.name
write_cell(m, case) == [m EXCEPT !.tape[m.head + 1] = case.write]

\* a head that moves right whatever the step is
move_head_always_right(m, case) == m.head + 1

\* a Right move that stops at the last cell
move_head_clamped(m, case) ==
  IF case.step = "Left" THEN m.head - 1
  ELSE IF m.head + 1 < Len(m.tape) THEN m.head + 1 ELSE m.head

\* the head after the match on case.step, when it does not underflow
move_head(m, case) == IF case.step = "Left" THEN m.head - 1 ELSE m.head + 1

\* a Left move that never checks for cell 0
underflows_never(m, case) == FALSE

\* Step::Left with self.head == 0
underflows(m, case) == case.step = "Left" /\ m.head = 0

\* a body that leaves halt as the caller set it
apply_case_keep_halt(m, case, i) ==
  LET w == write_cell(m, case) IN
  IF underflows(w, case)
  THEN [machine |-> w, result |-> "Err", fired |-> <<i>>]
  ELSE [machine |-> [w EXCEPT !.head = move_head(w, case), !.state = case.next],
        result |-> "Ok", fired |-> <<i>>]

\* a body that tests for underflow before it writes the cell
apply_case_check_first(m, case, i) ==
  IF underflows(m, case)
  THEN [machine |-> m, result |-> "Err", fired |-> <<i>>]
  ELSE [machine |-> [write_cell(m, case) EXCEPT !.head = move_head(m, case), !.state = case.next, !.halt = FALSE],
        result |-> "Ok", fired |-> <<i>>]

\* a body that extends the tape with tape_default when the head leaves it
apply_case_grow(m, case, i) ==
  LET w == write_cell(m, case) IN
  IF underflows(w, case)
  THEN [machine |-> w, result |-> "Err", fired |-> <<i>>]
  ELSE LET h == move_head(w, case)
       IN [machine |-> [w EXCEPT !.head = h, !.state = case.next, !.halt = FALSE,
                                 !.tape = IF h = Len(w.tape) THEN Append(w.tape, w.tape_default) ELSE w.tape],
           result |-> "Ok", fired |-> <<i>>]

\* the body of the if: write, move (or fail), next state, clear halt
apply_case(m, case, i) ==
  LET w == write_cell(m, case) IN
  IF underflows(w, case)
  THEN [machine |-> w, result |-> "Err", fired |-> <<i>>]
  ELSE [machine |-> [w EXCEPT !.head = move_head(w, case), !.state = case.next, !.halt = FALSE],
        result |-> "Ok", fired |-> <<i>>]

RECURSIVE scan_nobreak(_, _, _)
\* a scan without the break: it goes on to the later cases after a match
scan_nobreak(m, cases, i) ==
  IF i > Len(cases) THEN [machine |-> m, result |-> "Ok", fired |-> <<>>]
  ELSE IF ~state_eq(m, cases[i]) THEN scan_nobreak(m, cases, i + 1)
  ELSE IF ~InBounds(m) THEN [machine |-> m, result |-> "Panic", fired |-> <<>>]
  ELSE IF ~read_eq(m, cases[i]) THEN scan_nobreak(m, cases, i + 1)
  ELSE LET a == apply_case(m, cases[i], i) IN
       IF a.result # "Ok" THEN a
       ELSE LET rest == scan_nobreak(a.machine, cases, i + 1)
            IN [machine |-> rest.machine, result |-> rest.result, fired |-> a.fired \o rest.fired]

RECURSIVE scan_eager(_, _, _)
\* a scan that reads the cell before it compares the states
scan_eager(m, cases, i) ==
  IF i > Len(cases) THEN [machine |-> m, result |-> "Ok", fired |-> <<>>]
  ELSE IF ~InBounds(m) THEN [machine |-> m, result |-> "Panic", fired |-> <<>>]
  ELSE IF ~(state_eq(m, cases[i]) /\ read_eq(m, cases[i])) THEN scan_eager(m, cases, i + 1)
  ELSE apply_case(m, cases[i], i)

RECURSIVE scan(_, _, _)
\* for case in cases, from the i-th on; the scan ends at the first match (break)
scan(m, cases, i) ==
  IF i > Len(cases) THEN [machine |-> m, result |-> "Ok", fired |-> <<>>]
  ELSE IF ~state_eq(m, cases[i]) THEN scan(m, cases, i + 1)
  ELSE IF ~InBounds(m) THEN [machine |-> m, result |-> "Panic", fired |-> <<>>]
  ELSE IF ~read_eq(m, cases[i]) THEN scan(m, cases, i + 1)
  ELSE apply_case(m, cases[i], i)

\* Machine::next: the machine after the call, the call's result (Ok, Err, or
\* Panic for an index out of bounds), and the indices of the rules it applied
next(m, cases) == scan(m, cases, 1)

RECURSIVE tape_text(_)
\* write!(&mut buffer, "{name} ") for each symbol
tape_text(symbols) ==
  IF symbols = <<>> THEN <<>> ELSE Head(symbols) \o <<SP>> \o tape_text(Tail(symbols))

\* the buffer before cell i (0-based) is written
buffer_before(m, i) == m.state \o <<":", SP>> \o tape_text(SubSeq(m.tape, 1, i))

\* the local `head` of print: buffer.len() at i == self.head, else its initial 0
caret_offset(m) == IF InBounds(m) THEN ByteLen(buffer_before(m, m.head)) ELSE 0

\* Machine::print: the tape line and the number of spaces before the caret
print(m) == [line |-> buffer_before(m, Len(m.tape)), spaces |-> caret_offset(m)]

(* ------------------------------- inputs -------------------------------- *)
RuleTables == SeqsUpTo(Cases, MaxRules)
Tapes == {t \in SeqsUpTo(Sym, TapeLen) : Len(t) = TapeLen}

\* the rule tables whose rules all move Right, and those of a Right rule
\* followed by a Left rule; the tapes of every length from 1 to TapeLen
RightCases == {c \in Cases : c.step = "Right"}
LeftCases == {c \in Cases : c.step = "Left"}
LoopTables == SeqsUpTo(RightCases, MaxRules) \cup {<<r, l>> : r \in RightCases, l \in LeftCases}
LoopTapes == SeqsUpTo(Sym, TapeLen) \ {<<>>}
\* the turns of the loop a run over LoopTapes is followed for
LoopSteps == TapeLen + 2

RECURSIVE join(_, _)
\* the tokens with sep between them
join(tokens, sep) ==
  IF tokens = <<>> THEN <<>>
  ELSE IF Len(tokens) = 1 THEN Head(tokens)
  ELSE Head(tokens) \o sep \o join(Tail(tokens), sep)

\* three ways to lay a token sequence out in a file: on one line, one token
\* per line, and with blank fragments before, between and after the tokens
Layouts == {"line", "lines", "padded"}
Layout(tokens, how) ==
  IF how = "line" THEN join(tokens, <<SP>>)
  ELSE IF how = "lines" THEN join(tokens, <<NL>>) \o <<NL>>
  ELSE <<SP>> \o join(tokens, <<SP, NL>>) \o <<NL, SP>>

\* the tokens program files are made of, and the program and tape texts
ProgramVocab == Sym \cup {ArrowRight, ArrowLeft}
ProgramTexts == {Layout(ts, how) : ts \in SeqsUpTo(ProgramVocab, MaxProgTokens), how \in Layouts}
TapeTexts == {Layout(ts, how) : ts \in SeqsUpTo(Sym, MaxTapeTokens), how \in Layouts}

RECURSIVE TokenSeqsOfLen(_)
\* the token sequences of length n parse_cases is given: any of SymbolVocab
\* where a symbol is parsed, any of StepVocab where the step is parsed
SymbolVocab == {Inc, ArrowRight}
StepVocab == {ArrowRight, ArrowLeft, Inc, Acc}
TokenSeqsOfLen(n) ==
  IF n = 0 THEN {<<>>}
  ELSE {Append(s, x) : s \in TokenSeqsOfLen(n - 1),
                       x \in IF n % 5 = 4 THEN StepVocab ELSE SymbolVocab}
TokenSeqs == UNION {TokenSeqsOfLen(n) : n \in 0..MaxTokens}

\* the texts the tokenizer is given: both delimiters, a tab and a letter
Alphabet == {SP, NL, TAB, "a"}
Texts == SeqsUpTo(Alphabet, MaxText)

\* the command lines: no argument, one, two, and one too many
ArgLists == {<<>>, <<"input.alan">>, <<"input.alan", "input.tape">>, <<"input.alan", "input.tape", "extra">>}

(* ------------------------------- state --------------------------------- *)
VARIABLES
  args,         \* env::args() after the program name: the arguments not yet taken
  pc,           \* the position in start: alan, tape, parse_tape, construct, while, exit
  cases,        \* the parsed rule table
  tape_source,  \* <<>> before the tape file is read, <<its text>> after
  tape,         \* the parsed tape
  machine,      \* <<>> before the machine is constructed, <<the Machine>> after
  stdout,       \* the snapshots printed so far
  stderr,       \* the errors reported so far
  log,          \* history: the calls of print and next, with the machine each began from
  ret,          \* the result of start: none, Ok, Err, or Panic
  exit_code,    \* the process's exit status: none, SUCCESS, FAILURE, or 101 (panic)
  input,        \* the argument of a function called on its own: a text or a token sequence
  output        \* <<>> before that function returns, <<its result>> after

vars == <<args, pc, cases, tape_source, tape, machine, stdout, stderr, log, ret, exit_code, input, output>>

\* the variables of a run of start
run == <<args, cases, tape_source, tape, machine, stdout, stderr, log, ret, exit_code>>

M == machine[1]

Error(kind, got) == [kind |-> kind, got |-> got]
Event(op, m, r) == [op |-> op, machine |-> m, result |-> r.result, fired |-> r.fired]

\* the process at the entry of start
InitStart ==
  /\ args \in ArgLists
  /\ pc = "alan"
  /\ cases = <<>>
  /\ tape_source = <<>>
  /\ tape = <<>>
  /\ machine = <<>>
  /\ stdout = <<>>
  /\ stderr = <<>>
  /\ log = <<>>
  /\ ret = "none"
  /\ exit_code = "none"
  /\ input = <<>>
  /\ output = <<>>

\* the state right after let mut machine = Machine {...}, for a program
\* file that parses to the rule table cs and a tape file that holds t
Init ==
  \E cs \in RuleTables, t \in Tapes :
    /\ args = <<>>
    /\ pc = "while"
    /\ cases = cs
    /\ tape_source = <<Layout(t, "line")>>
    /\ tape = t
    /\ machine = <<NewMachine(t)>>
    /\ stdout = <<>>
    /\ stderr = <<>>
    /\ log = <<>>
    /\ ret = "none"
    /\ exit_code = "none"
    /\ input = <<>>
    /\ output = <<>>

\* the same state, for the rule tables of LoopTables and the tapes of LoopTapes
InitLoop ==
  \E cs \in LoopTables, t \in LoopTapes :
    /\ args = <<>>
    /\ pc = "while"
    /\ cases = cs
    /\ tape_source = <<Layout(t, "line")>>
    /\ tape = t
    /\ machine = <<NewMachine(t)>>
    /\ stdout = <<>>
    /\ stderr = <<>>
    /\ log = <<>>
    /\ ret = "none"
    /\ exit_code = "none"
    /\ input = <<>>
    /\ output = <<>>

\* return Err(()) from start after reporting kind; main turns it into FAILURE
Abort(kind, got) ==
  /\ stderr' = Append(stderr, Error(kind, got))
  /\ ret' = "Err"
  /\ exit_code' = "FAILURE"
  /\ pc' = "exit"

\* args.next() for input.alan, fs::read_to_string, then
\* parse_cases(&mut alan_source.split(..).filter(..).peekable())?; file is
\* what the read gives: <<>> for an error, <<text>> for the contents
LoadProgram ==
  /\ pc = "alan"
  /\ \E file \in {<<>>} \cup {<<t>> : t \in ProgramTexts} :
       IF args = <<>>
       THEN /\ Abort("MissingArgument", NoToken)
            /\ UNCHANGED <<args, cases>>
       ELSE /\ args' = Tail(args)
            /\ IF file = <<>>
               THEN /\ Abort("FileReadError", NoToken)
                    /\ UNCHANGED cases
               ELSE LET alan_source == file[1]
                        r == parse_cases(Tokenize(alan_source))
                    IN IF r.ok
                       THEN /\ cases' = r.val[1]
                            /\ pc' = "tape"
                            /\ UNCHANGED <<stderr, ret, exit_code>>
                       ELSE /\ Abort(r.err.kind, r.err.got)
                            /\ UNCHANGED cases
  /\ UNCHANGED <<tape_source, tape, machine, stdout, log, input, output>>

\* args.next() for input.tape, then fs::read_to_string
OpenTape ==
  /\ pc = "tape"
  /\ \E file \in {<<>>} \cup {<<t>> : t \in TapeTexts} :
       IF args = <<>>
       THEN /\ Abort("MissingArgument", NoToken)
            /\ UNCHANGED <<args, tape_source>>
       ELSE /\ args' = Tail(args)
            /\ IF file = <<>>
               THEN /\ Abort("FileReadError", NoToken)
                    /\ UNCHANGED tape_source
               ELSE /\ tape_source' = file
                    /\ pc' = "parse_tape"
                    /\ UNCHANGED <<stderr, ret, exit_code>>
  /\ UNCHANGED <<cases, tape, machine, stdout, log, input, output>>

\* let tape = parse_tape(&mut tape_source.split(..).filter(..).peekable())?;
ParseTape ==
  /\ pc = "parse_tape"
  /\ LET r == parse_tape(Tokenize(tape_source[1])) IN
       IF r.ok
       THEN /\ tape' = r.val[1]
            /\ pc' = "construct"
            /\ UNCHANGED <<stderr, ret, exit_code>>
       ELSE /\ Abort(r.err.kind, r.err.got)
            /\ UNCHANGED tape
  /\ UNCHANGED <<args, cases, tape_source, machine, stdout, log, input, output>>

\* tape.last() gives tape_default or the run fails; then Machine {...}
Construct ==
  /\ pc = "construct"
  /\ IF tape # <<>>
     THEN /\ machine' = <<NewMachine(tape)>>
          /\ pc' = "while"
          /\ UNCHANGED <<stderr, ret, exit_code>>
     ELSE /\ Abort("EmptyTape", NoToken)
          /\ UNCHANGED machine
  /\ UNCHANGED <<args, cases, tape_source, tape, stdout, log, input, output>>

\* what follows machine.next(&cases)?: Err leaves start through the ?, an
\* index out of bounds panics (status 101), Ok goes back to the loop test,
\* which ends the loop, start (Ok(())) and main (SUCCESS) when halt is set
Outcome(r) ==
  IF r.result = "Err"
  THEN Abort("TapeUnderflow", NoToken)
  ELSE IF r.result = "Panic"
  THEN /\ stderr' = Append(stderr, Error("Panic", NoToken))
       /\ ret' = "Panic"
       /\ exit_code' = "101"
       /\ pc' = "exit"
  ELSE IF r.machine.halt
  THEN /\ ret' = "Ok"
       /\ exit_code' = "SUCCESS"
       /\ pc' = "exit"
       /\ UNCHANGED stderr
  ELSE /\ pc' = "while"
       /\ UNCHANGED <<stderr, ret, exit_code>>

\* a loop body that steps first and prints afterwards
Cycle_step_first ==
  /\ pc = "while"
  /\ ~M.halt
  /\ Len(stdout) < MaxSteps
  /\ LET h == [M EXCEPT !.halt = TRUE]
         r == next(h, cases)
     IN /\ machine' = <<r.machine>>
        /\ stdout' = Append(stdout, print(r.machine))
        /\ log' = log \o <<Event("next", h, r), Event("print", r.machine, [result |-> "Ok", fired |-> <<>>])>>
        /\ Outcome(r)
  /\ UNCHANGED <<args, cases, tape_source, tape, input, output>>

\* one turn of while !machine.halt, up to the next test of the condition:
\* machine.print(); machine.halt = true; machine.next(&cases)?;
Cycle ==
  /\ pc = "while"
  /\ ~M.halt
  /\ Len(stdout) < MaxSteps
  /\ LET h == [M EXCEPT !.halt = TRUE]
         r == next(h, cases)
     IN /\ stdout' = Append(stdout, print(M))
        /\ machine' = <<r.machine>>
        /\ log' = log \o <<Event("print", M, [result |-> "Ok", fired |-> <<>>]), Event("next", h, r)>>
        /\ Outcome(r)
  /\ UNCHANGED <<args, cases, tape_source, tape, input, output>>

\* the same turn of the loop, in a run followed for LoopSteps turns
LoopCycle ==
  /\ pc = "while"
  /\ ~M.halt
  /\ Len(stdout) < LoopSteps
  /\ LET h == [M EXCEPT !.halt = TRUE]
         r == next(h, cases)
     IN /\ stdout' = Append(stdout, print(M))
        /\ machine' = <<r.machine>>
        /\ log' = log \o <<Event("print", M, [result |-> "Ok", fired |-> <<>>]), Event("next", h, r)>>
        /\ Outcome(r)
  /\ UNCHANGED <<args, cases, tape_source, tape, input, output>>

\* the driver loop
Next == Cycle

\* a state in which nothing of start has run
NoRun ==
  /\ args = <<>>
  /\ cases = <<>>
  /\ tape_source = <<>>
  /\ tape = <<>>
  /\ machine = <<>>
  /\ stdout = <<>>
  /\ stderr = <<>>
  /\ log = <<>>
  /\ ret = "none"
  /\ exit_code = "none"

\* parse_cases about to be called on a token stream
InitParse ==
  /\ input \in TokenSeqs
  /\ output = <<>>
  /\ pc = "parse_cases"
  /\ NoRun

\* the call parse_cases(&mut lexer)
ParseCases ==
  /\ pc = "parse_cases"
  /\ output' = <<parse_cases(input)>>
  /\ pc' = "return"
  /\ UNCHANGED <<input, run>>

\* the tokenizer about to be run over a text
InitLex ==
  /\ input \in Texts
  /\ output = <<>>
  /\ pc = "tokenize"
  /\ NoRun

\* source.split(&[' ', '\n']).filter(|t| t.len() > 0), collected
Lex ==
  /\ pc = "tokenize"
  /\ output' = <<Tokenize(input)>>
  /\ pc' = "return"
  /\ UNCHANGED <<input, run>>

\* the whole of start
NextStart == LoadProgram \/ OpenTape \/ ParseTape \/ Construct \/ Next

\* runs of the machine over every rule table and tape within the bounds
Spec == Init /\ [][Next]_vars

\* runs of the process from its command line and files
SpecStart == InitStart /\ [][NextStart]_vars

\* runs of the machine over right-only and right-left rule tables, followed
\* for more turns than the tape has cells
SpecLoop == InitLoop /\ [][LoopCycle]_vars

\* parse_cases on every token sequence within the bounds
SpecParse == InitParse /\ [][ParseCases]_vars

\* the tokenizer on every text within the bounds
SpecLex == InitLex /\ [][Lex]_vars

(* --------------------------- the claims' terms -------------------------- *)
\* a rule whose (state, read) is (m.state, m.tape[m.head]); there is no such
\* pair, and so no such rule, when the head is not on a cell
Matches(m, c) == c.state = m.state /\ InBounds(m) /\ c.read = m.tape[m.head + 1]
HasMatch(m, cs) == \E i \in DOMAIN cs : Matches(m, cs[i])
\* the first rule in program order that matches
FirstMatch(m, cs) == CHOOSE i \in DOMAIN cs : Matches(m, cs[i]) /\ \A j \in 1..(i - 1) : ~Matches(m, cs[j])
FirstRule(m, cs) == cs[FirstMatch(m, cs)]
\* the first matching rule moves Left with the head on cell 0
UnderflowCase(m, cs) == HasMatch(m, cs) /\ FirstRule(m, cs).step = "Left" /\ m.head = 0

\* the state, tape and head of a machine
Config(m) == <<m.state, m.tape, m.head>>

Calls == {k \in DOMAIN log : log[k].op = "next"}
Prints == {k \in DOMAIN log : log[k].op = "print"}
LastIsCall == log # <<>> /\ log[Len(log)].op = "next"
Last == log[Len(log)]
Stopped == pc = "exit"

RECURSIVE Applications(_)
\* the rule applications of the first k events
Applications(k) == IF k = 0 THEN 0 ELSE Len(log[k].fired) + Applications(k - 1)

\* what a rule application does, by the specification
Applied(m, c) ==
  [m EXCEPT !.tape[m.head + 1] = c.write,
            !.head = IF c.step = "Right" THEN m.head + 1 ELSE m.head - 1,
            !.state = c.next]

RECURSIVE Trajectory(_)
\* the machines after 0, 1, .. n rule applications, each of the first matching rule
Trajectory(n) ==
  IF n = 0 THEN <<NewMachine(tape)>>
  ELSE LET t == Trajectory(n - 1)
       IN Append(t, Applied(t[n], FirstRule(t[n], cases)))

\* the machine after n rule applications
AfterApplications(n) == Trajectory(n)[n + 1]

(* C1: a call of next with the head on a cell, for which some rule matches  *)
(* and the first such rule is not a Left move at head 0, leaves that rule's *)
(* write symbol in the old head cell, the head one to the right (Right) or  *)
(* one to the left (Left), the rule's next symbol as the state and halt     *)
(* false, and returns Ok.                                                   *)
C1_StepAppliesFirstMatch ==
  (LastIsCall /\ InBounds(Last.machine) /\ HasMatch(Last.machine, cases)
     /\ ~UnderflowCase(Last.machine, cases)) =>
    LET pre == Last.machine
        rule == FirstRule(pre, cases)
    IN /\ M.tape[pre.head + 1] = rule.write
       /\ M.head = (IF rule.step = "Right" THEN pre.head + 1 ELSE pre.head - 1)
       /\ M.state = rule.next
       /\ M.halt = FALSE
       /\ Last.result = "Ok"
       /\ pc = "while"

\* a call has just applied a Left rule away from cell 0, changing the cell and the state
C1_Witness ==
  /\ LastIsCall
  /\ Last.fired # <<>>
  /\ cases[Last.fired[1]].step = "Left"
  /\ Last.machine.head = 1
  /\ M.head = 0
  /\ M.tape # Last.machine.tape
  /\ M.state # Last.machine.state

(* C2: every rule application uses the first rule in program order among    *)
(* those with the machine's (state, read) pair, a later rule with the same  *)
(* pair is never applied, and one call of next applies at most one rule.    *)
C2_RulePrecedence ==
  \A k \in Calls :
    /\ Len(log[k].fired) <= 1
    /\ log[k].fired # <<>> =>
         /\ HasMatch(log[k].machine, cases)
         /\ log[k].fired[1] = FirstMatch(log[k].machine, cases)
         /\ \A j \in 1..(log[k].fired[1] - 1) :
              <<cases[j].state, cases[j].read>> # <<log[k].machine.state, Cell(log[k].machine)>>

\* the first of two different rules for the same pair has been applied
C2_Witness ==
  /\ Len(cases) >= 2
  /\ cases[1] # cases[2]
  /\ <<cases[1].state, cases[1].read>> = <<cases[2].state, cases[2].read>>
  /\ \E k \in Calls : log[k].fired = <<1>> /\ Matches(log[k].machine, cases[2])

(* C3: a call of next with halt = true for which no rule has the machine's  *)
(* (state, tape[head]) pair is a no-op: it returns Ok, halt stays true and  *)
(* state, head and every tape cell are what they were before the call.      *)
C3_NoMatchIsNoOp ==
  (LastIsCall /\ Last.machine.halt /\ ~HasMatch(Last.machine, cases)) =>
    /\ Last.result = "Ok"
    /\ M = Last.machine
    /\ pc = "exit"
    /\ ret = "Ok"

(* C4: when the first rule matching (state, tape[head]) moves Left and the  *)
(* head is 0, next returns the TapeUnderflow error instead of halting, the  *)
(* head stays 0, and the run aborts at once: the failed call is the last    *)
(* event of the run, nothing is printed after it, and every snapshot        *)
(* printed is the snapshot of the machine as it stood after that many       *)
(* rule applications.                                                       *)
C4_UnderflowAborts ==
  /\ \A k \in Calls :
       UnderflowCase(log[k].machine, cases) =>
         /\ k = Len(log)
         /\ log[k].result = "Err"
         /\ M.head = 0
         /\ Stopped
         /\ ret = "Err"
         /\ stderr = <<Error("TapeUnderflow", NoToken)>>
         /\ exit_code = "FAILURE"
         /\ Len(stdout) = Cardinality(Prints)
         /\ LET reached == Trajectory(Len(stdout) - 1)
            IN \A i \in DOMAIN stdout : stdout[i] = print(reached[i])
  /\ \A k \in Calls : log[k].result = "Err" => UnderflowCase(log[k].machine, cases)

\* a run that moved right, then left, then underflowed: three snapshots, then the error
C4_Witness ==
  /\ pc = "exit"
  /\ ret = "Err"
  /\ exit_code = "FAILURE"
  /\ Len(stdout) = 3
  /\ LastIsCall
  /\ Last.result = "Err"
  /\ UnderflowCase(Last.machine, cases)

(* C5: the driver loop ends in exactly two ways: a print/step cycle         *)
(* completes with halt still true because no rule matched, or the step call *)
(* reports tape underflow; the loop never stops while a rule still matches  *)
(* without underflow, and once the machine is halted next is not called     *)
(* again.                                                                   *)
C5_LoopEndsTwoWays ==
  /\ Stopped =>
       \/ /\ ret = "Ok"
          /\ LastIsCall
          /\ Last.result = "Ok"
          /\ Last.fired = <<>>
          /\ ~HasMatch(Last.machine, cases)
          /\ M.halt
       \/ /\ ret = "Err"
          /\ LastIsCall
          /\ Last.result = "Err"
          /\ UnderflowCase(Last.machine, cases)
  /\ \A k \in Calls :
       (HasMatch(log[k].machine, cases) /\ ~UnderflowCase(log[k].machine, cases)) =>
         ~(Stopped /\ k = Len(log))
  /\ \A k \in Calls : k < Len(log) => (log[k].fired # <<>> /\ log[k].result = "Ok")

(* C6: every call of next is immediately preceded by exactly one snapshot,  *)
(* of the configuration the step starts from, and nothing is printed after  *)
(* the last call; a run that halts normally after k rule applications has   *)
(* printed k+1 snapshots, the i-th of the machine after i-1 rule            *)
(* applications, the last of the final, halted configuration.               *)
C6_PrintStepOrdering ==
  /\ \A k \in Calls :
       /\ k > 1
       /\ log[k - 1].op = "print"
       /\ Config(log[k - 1].machine) = Config(log[k].machine)
  /\ \A k \in Prints : k = 1 \/ log[k - 1].op = "next"
  /\ Len(stdout) = Cardinality(Prints)
  /\ stdout # <<>> =>
       LET reached == Trajectory(Len(stdout) - 1)
       IN \A i \in DOMAIN stdout :
            /\ log[2 * i - 1].op = "print"
            /\ stdout[i] = print(log[2 * i - 1].machine)
            /\ Config(log[2 * i - 1].machine) = Config(reached[i])
  /\ Stopped => LastIsCall
  /\ ret = "Ok" =>
       /\ Len(stdout) = Applications(Len(log)) + 1
       /\ stdout[Len(stdout)] = print(M)
       /\ Config(M) = Config(AfterApplications(Applications(Len(log))))
       /\ M.halt

\* a run that applied two rules and halted normally, having printed three snapshots
C6_Witness ==
  /\ pc = "exit"
  /\ exit_code = "SUCCESS"
  /\ Applications(Len(log)) = 2
  /\ Len(stdout) = 3
  /\ stdout[1] # stdout[2]
  /\ stdout[2] # stdout[3]

(* C7: the process exits with success exactly when the simulation ended by *)
(* a normal halt (a step in which no rule matched); a run that hits a       *)
(* missing argument, an unreadable file, UnexpectedEnd, InvalidStep,        *)
(* EmptyTape or TapeUnderflow exits with failure; a run that stops has no   *)
(* other outcome.                                                           *)
ListedErrors == {"MissingArgument", "FileReadError", "UnexpectedEnd", "InvalidStep", "EmptyTape", "TapeUnderflow"}
NormalHalt == stderr = <<>> /\ LastIsCall /\ Last.result = "Ok" /\ Last.fired = <<>>
C7_ExitStatus ==
  pc = "exit" =>
    /\ exit_code = "SUCCESS" <=> NormalHalt
    /\ \/ NormalHalt
       \/ /\ Len(stderr) = 1
          /\ stderr[1].kind \in ListedErrors
          /\ exit_code # "SUCCESS"

(* C8: when the program text parsed and the tape text holds no token, the   *)
(* run fails with EmptyTape and a failure exit status, the machine is never *)
(* constructed, no snapshot is printed and no step is invoked, whatever the *)
(* rule table is.                                                           *)
NoTokens(text) == \A i \in DOMAIN text : text[i] \in {SP, NL}
C8_EmptyTape ==
  (tape_source # <<>> /\ NoTokens(tape_source[1])) =>
    /\ machine = <<>>
    /\ stdout = <<>>
    /\ log = <<>>
    /\ pc \in {"parse_tape", "construct", "exit"}
    /\ pc = "exit" => (ret = "Err" /\ stderr = <<Error("EmptyTape", NoToken)>> /\ exit_code = "FAILURE")

\* a run with a rule table of one rule and a tape file of blanks has failed with EmptyTape
C8_Witness ==
  /\ pc = "exit"
  /\ exit_code = "FAILURE"
  /\ stderr = <<Error("EmptyTape", NoToken)>>
  /\ Len(cases) = 1
  /\ tape_source # <<>>
  /\ tape_source[1] # <<>>
  /\ NoTokens(tape_source[1])

RECURSIVE CellColumns(_, _)
\* the printed characters of the first n cells, each with the space after it
CellColumns(t, n) == IF n = 0 THEN 0 ELSE CharLen(t[n]) + 1 + CellColumns(t, n - 1)

(* C9: in every snapshot the marker line holds its caret at the column      *)
(* where the head cell's symbol starts in the tape line: the characters of  *)
(* the state name, plus 2, plus for each cell before the head its           *)
(* characters plus 1.                                                       *)
C9_CaretColumn ==
  \A i \in DOMAIN stdout :
    LET m == log[2 * i - 1].machine
    IN stdout[i].spaces = CharLen(m.state) + 2 + CellColumns(m.tape, m.head)

(* C10: the machine starts in state Inc at head 0 with halt false, its tape *)
(* the tape file's tokens in file order and tape_default the last of them,  *)
(* whatever the rule table; a run whose tape file holds a token constructs  *)
(* the machine; and a program with no rule for state Inc prints exactly one *)
(* snapshot and halts normally with the tape unchanged.                     *)
NoIncRule == \A i \in DOMAIN cases : cases[i].state # Inc
C10_InitialConfiguration ==
  /\ (machine # <<>> /\ log = <<>>) =>
       LET tokens == Tokenize(tape_source[1])
       IN /\ tokens # <<>>
          /\ M = [state |-> Inc, tape |-> tokens, tape_default |-> tokens[Len(tokens)],
                  head |-> 0, halt |-> FALSE]
  /\ (tape_source # <<>> /\ ~NoTokens(tape_source[1]) /\ Stopped) => machine # <<>>
  /\ (machine # <<>> /\ NoIncRule) =>
       /\ Len(stdout) <= 1
       /\ M.tape = Tokenize(tape_source[1])
       /\ Stopped => (Len(stdout) = 1 /\ ret = "Ok" /\ Applications(Len(log)) = 0)
       /\ pc = "exit" => exit_code = "SUCCESS"

\* a program whose only rule is for another state, on a tape of two
\* different symbols, has printed one snapshot and exited with success
C10_Witness ==
  /\ pc = "exit"
  /\ exit_code = "SUCCESS"
  /\ Len(cases) = 1
  /\ NoIncRule
  /\ Len(stdout) = 1
  /\ Len(M.tape) = 2
  /\ M.tape[1] # M.tape[2]
  /\ M.tape_default = M.tape[2]

(* ------------------------- the parser's claims -------------------------- *)
StepTokens == {ArrowRight, ArrowLeft}
\* the 1-based indices of the tokens at the 0-based positions 5i+3
StepPositions(ts) == {p \in DOMAIN ts : p % 5 = 4}
BadSteps(ts) == {p \in StepPositions(ts) : ts[p] \notin StepTokens}
StepOf(t) == IF t = ArrowRight THEN "Right" ELSE "Left"
\* the i-th case (from 1) of a token sequence
CaseAt(ts, i) ==
  [state |-> ts[5 * i - 4], read |-> ts[5 * i - 3], write |-> ts[5 * i - 2],
   step |-> StepOf(ts[5 * i - 1]), next |-> ts[5 * i]]
Returned == pc = "return"
Result == output[1]

(* C11: for every token sequence of length n whose tokens at the positions  *)
(* 5i+3 are all "->" or "<-", parse_cases succeeds exactly when n is a      *)
(* multiple of 5 and then yields the n/5 cases in program order, case i     *)
(* made of the tokens 5i .. 5i+4 ("->" Right, "<-" Left); otherwise it      *)
(* fails with UnexpectedEnd and yields no rule table; n = 0 yields the      *)
(* empty rule table.                                                        *)
C11_ParseCases ==
  (Returned /\ BadSteps(input) = {}) =>
    LET n == Len(input) IN
    /\ Result.ok <=> n % 5 = 0
    /\ Result.ok => Result.val = <<[i \in 1..(n \div 5) |-> CaseAt(input, i)]>>
    /\ ~Result.ok => (Result.err = Error("UnexpectedEnd", NoToken) /\ Result.val = <<>>)
    /\ n = 0 => (Result.ok /\ Result.val = << <<>> >>)

\* ten tokens have been parsed into two cases, a Right one and then a Left one
C11_Witness ==
  /\ Returned
  /\ Len(input) = 10
  /\ Result.ok
  /\ Len(Result.val[1]) = 2
  /\ Result.val[1][1].step = "Right"
  /\ Result.val[1][2].step = "Left"
  /\ Result.val[1][1].state # Result.val[1][1].next
  /\ Result.val[1][2].read # Result.val[1][2].write

\* the least element of a non-empty set of numbers
Least(S) == CHOOSE p \in S : \A q \in S : p <= q

(* C12: parse_cases fails with InvalidStep exactly when some token at a     *)
(* position 5i+3 is neither "->" nor "<-"; the error reports the first such *)
(* token, the tokens after it are not consumed, no rule table is yielded,   *)
(* and neither a later truncation nor a later invalid step is reported.     *)
C12_FirstFailureWins ==
  Returned =>
    /\ (~Result.ok /\ Result.err.kind = "InvalidStep") <=> BadSteps(input) # {}
    /\ BadSteps(input) # {} =>
         LET p == Least(BadSteps(input)) IN
         /\ Result.err = Error("InvalidStep", input[p])
         /\ Result.rest = SubSeq(input, p + 1, Len(input))
         /\ Result.val = <<>>

\* a parse has failed on the first of two different invalid steps, in a
\* token sequence that is also cut off in the middle of its second case
C12_Witness ==
  /\ Returned
  /\ Len(input) = 9
  /\ BadSteps(input) = {4, 9}
  /\ input[4] # input[9]
  /\ Result.err = Error("InvalidStep", input[4])
  /\ Len(Result.rest) = 5

(* ------------------------ the tokenizer's claim ------------------------- *)
Blank(c) == c = SP \/ c = NL
\* the first positions of the maximal runs of characters that are not blank
RunStarts(text) == {i \in DOMAIN text : ~Blank(text[i]) /\ (i = 1 \/ Blank(text[i - 1]))}
\* the last position of the maximal run that starts at i
RunEnd(text, i) ==
  CHOOSE j \in i..Len(text) :
    /\ \A k \in i..j : ~Blank(text[k])
    /\ j = Len(text) \/ Blank(text[j + 1])
\* the number of runs that start at or before i
Rank(text, i) == Cardinality({j \in RunStarts(text) : j <= i})

(* C13: the tokens of a text over space, newline, tab and a letter are      *)
(* exactly its maximal runs of characters other than space and newline, in  *)
(* input order; no token is empty, none holds a space or a newline, a tab   *)
(* stays inside its token, and a text of spaces and newlines alone has no   *)
(* token.                                                                   *)
C13_Tokenizer ==
  Returned =>
    /\ Len(Result) = Cardinality(RunStarts(input))
    /\ \A i \in RunStarts(input) : Result[Rank(input, i)] = SubSeq(input, i, RunEnd(input, i))
    /\ \A k \in DOMAIN Result :
         /\ Result[k] # <<>>
         /\ \A j \in DOMAIN Result[k] : ~Blank(Result[k][j])
    /\ Cardinality({i \in DOMAIN input : input[i] = TAB})
         = Cardinality({<<k, j>> \in (DOMAIN Result) \X (1..Len(input)) :
                          j <= Len(Result[k]) /\ Result[k][j] = TAB})
    /\ (\A i \in DOMAIN input : Blank(input[i])) => Result = <<>>

\* a text of two tokens with two delimiters between them, the first token
\* with a tab in it
C13_Witness ==
  /\ Returned
  /\ input = <<TAB, "a", SP, NL, "a">>
  /\ Result = << <<TAB, "a">>, <<"a">> >>

(* ------------------------- the machine's claims ------------------------- *)
\* some rule is for the machine's state (the left operand of && holds)
HasStateRule(m, cs) == \E i \in DOMAIN cs : cs[i].state = m.state
\* the head is one past the last cell
PastEnd(m) == m.head = Len(m.tape)

(* C15 as claimed: after halt has been set and next has been called, halt   *)
(* is false if and only if some rule matched the (state, tape[head]) pair   *)
(* the call began from.                                                     *)
C15_HaltIffMatched ==
  LastIsCall => (Last.machine.halt /\ (~M.halt <=> HasMatch(Last.machine, cases)))

(* C15 as amended: after halt has been set and next has been called, halt   *)
(* is false if and only if some rule matched the (state, tape[head]) pair   *)
(* the call began from and the call did not fail with tape underflow.       *)
C15_HaltIffApplied ==
  LastIsCall =>
    /\ Last.machine.halt
    /\ ~M.halt <=> (HasMatch(Last.machine, cases) /\ ~UnderflowCase(Last.machine, cases))
    /\ ~M.halt <=> (Last.fired # <<>> /\ Last.result = "Ok")

\* two calls have cleared halt and the third has matched a rule and underflowed, halt still set
C15_Witness ==
  /\ Len(log) = 6
  /\ log[4].fired # <<>>
  /\ ~log[5].machine.halt
  /\ Last.result = "Err"
  /\ HasMatch(Last.machine, cases)
  /\ M.halt

(* C16: in every configuration of every run 0 <= head <= len(tape); every   *)
(* call of next begins with the head, the only index it reads or writes,    *)
(* at 0 or above; the head can be len(tape) and is never more.              *)
C16_HeadBounds ==
  /\ machine # <<>> => M.head \in 0..Len(M.tape)
  /\ \A k \in DOMAIN log : log[k].machine.head \in 0..Len(log[k].machine.tape)
  /\ \A k \in Calls :
       log[k].fired # <<>> =>
         /\ log[k].machine.head \in 0..(Len(log[k].machine.tape) - 1)
         /\ k = Len(log) => M.tape[log[k].machine.head + 1] = cases[log[k].fired[1]].write

\* the head stands one past the last cell after a Right move from the last cell
C16_Witness ==
  /\ LastIsCall
  /\ Last.fired # <<>>
  /\ Last.machine.head = Len(M.tape) - 1
  /\ PastEnd(M)
  /\ pc = "while"

(* C17 as claimed: whenever next is called with head = len(tape) it reads   *)
(* tape[head], an access out of bounds, whatever the rule table and the     *)
(* state are.                                                               *)
C17_OverrunAlwaysReads ==
  (LastIsCall /\ PastEnd(Last.machine)) => Last.result = "Panic"

(* C17 as amended: a Right move checks no upper bound, and when next is     *)
(* called with head = len(tape) it reads tape[head], an access out of       *)
(* bounds, exactly when some rule of the table is for the current state;    *)
(* with no such rule the call reads no cell, changes nothing and returns    *)
(* Ok.                                                                      *)
C17_OverrunReadsOnStateRule ==
  /\ \A k \in Calls :
       (log[k].fired # <<>> /\ cases[log[k].fired[1]].step = "Right" /\ k < Len(log)) =>
         log[k + 1].machine.head = log[k].machine.head + 1
  /\ (LastIsCall /\ PastEnd(Last.machine)) =>
       /\ Last.result = "Panic" <=> HasStateRule(Last.machine, cases)
       /\ ~HasStateRule(Last.machine, cases) => (Last.result = "Ok" /\ M = Last.machine)
  /\ (LastIsCall /\ Last.result = "Panic") => PastEnd(Last.machine)

\* a run moved right off the tape and the next call read past the end
C17_Witness ==
  /\ LastIsCall
  /\ PastEnd(Last.machine)
  /\ Last.result = "Panic"
  /\ exit_code = "101"
  /\ Len(log) = 2 * (Len(tape) + 1)

\* what one step may change of the machine: the cell under the old head
StepFrame ==
  (machine # <<>> /\ machine' # <<>>) =>
    /\ Len(M'.tape) = Len(M.tape)
    /\ M'.tape_default = M.tape_default
    /\ \A j \in DOMAIN M.tape : j # M.head + 1 => M'.tape[j] = M.tape[j]

(* C18: every call of next changes at most the tape cell under the head it  *)
(* began from; the other cells, the length of the tape and tape_default are *)
(* unchanged, so that always len(tape) is the initial length and            *)
(* tape_default the last symbol of the initial tape; the rule table is      *)
(* never modified.                                                          *)
C18_StepFrame ==
  /\ [](machine # <<>> => (Len(M.tape) = Len(tape) /\ M.tape_default = tape[Len(tape)]))
  /\ [][StepFrame /\ cases' = cases]_vars

\* a call has changed the cell under the head on a tape whose last symbol
\* differs from its first
C18_Witness ==
  /\ LastIsCall
  /\ Last.fired # <<>>
  /\ Last.machine.head = 0
  /\ M.tape[1] # Last.machine.tape[1]
  /\ M.tape[Len(M.tape)] # M.tape_default

(* C19: when next fails with tape underflow the matched rule's write symbol *)
(* is already in tape[0], while head is still 0, the state is still the one *)
(* before the call and halt is still true; the other cells are unchanged;   *)
(* the run ends there, so that the last snapshot printed shows the cell as  *)
(* it was and the overwritten cell is never printed.                        *)
C19_FailedStepState ==
  (LastIsCall /\ Last.result = "Err") =>
    LET pre == Last.machine
        rule == cases[Last.fired[1]]
    IN /\ Last.fired = <<FirstMatch(pre, cases)>>
       /\ pre.head = 0
       /\ M = [pre EXCEPT !.tape[1] = rule.write]
       /\ M.head = 0
       /\ M.state = pre.state
       /\ M.halt
       /\ Stopped
       /\ Len(stdout) = Cardinality(Prints)
       /\ stdout[Len(stdout)] = print(pre)

\* a failed step has overwritten cell 0 with another symbol, under a rule
\* whose next state is not the current one; the last snapshot shows the old cell
C19_Witness ==
  /\ LastIsCall
  /\ Last.result = "Err"
  /\ M.tape[1] # Last.machine.tape[1]
  /\ cases[Last.fired[1]].next # M.state
  /\ stdout[Len(stdout)] # print(M)

(* --------------------------- the loop's claim --------------------------- *)
RightOnly(cs) == \A i \in DOMAIN cs : cs[i].step = "Right"
\* a program that moves right in state Inc and left in state U+00E9, on a
\* tape of Inc cells
Alternating ==
  <<[state |-> Inc, read |-> Inc, write |-> Inc, step |-> "Right", next |-> Acc],
    [state |-> Acc, read |-> Inc, write |-> Inc, step |-> "Left", next |-> Inc]>>
AllInc(t) == \A i \in DOMAIN t : t[i] = Inc
\* the loop has not stopped and its next turn can be taken
Running == pc = "while" /\ ~M.halt /\ Len(stdout) < LoopSteps

(* C20: when every rule of the table moves Right, the loop stops after at   *)
(* most n+1 calls of next on a tape of n cells: every rule application      *)
(* moves the head one to the right, no rule is applied with the head at n,  *)
(* and until the loop stops its next turn is taken; a program with a Left   *)
(* rule need not stop: the program Alternating on a tape of at least two    *)
(* Inc cells returns to the configuration it was in two calls before, every *)
(* second call, and never stops.                                            *)
C20_RightOnlyStops ==
  /\ RightOnly(cases) =>
       /\ Cardinality(Calls) <= Len(tape) + 1
       /\ Cardinality(Calls) = Len(tape) + 1 => Stopped
       /\ ~Stopped => Running
       /\ \A k \in Calls :
            /\ log[k].fired # <<>> => log[k].machine.head = Applications(k - 1)
            /\ PastEnd(log[k].machine) => log[k].fired = <<>>
       /\ ~Stopped => M.head = Applications(Len(log))
  /\ (cases = Alternating /\ AllInc(tape) /\ Len(tape) >= 2) =>
       /\ ~Stopped
       /\ Applications(Len(log)) = Cardinality(Calls)
       /\ \A k \in Prints : k > 4 => Config(log[k].machine) = Config(log[k - 4].machine)

\* a right-only program has walked a tape of TapeLen cells to its end and
\* stopped at the call after that, the (TapeLen+1)-th
C20_Witness ==
  /\ cases # <<>>
  /\ RightOnly(cases)
  /\ Len(tape) = TapeLen
  /\ Cardinality(Calls) = TapeLen + 1
  /\ Applications(Len(log)) = TapeLen
  /\ Stopped

====
